---- MODULE Spec2Model ----
(***************************************************************************)
(* runrunrun: rule-based input dispatcher.                                 *)
(*                                                                         *)
(* The model follows one run of the program: the configuration loader      *)
(* (RrrBuilder, src/src/rrr.rs) fills one RuleSetBuilder per profile, the  *)
(* build resolves and reverses the rules (src/src/rule_set.rs), and the    *)
(* dispatcher (src/src/main.rs) matches, prepares and executes each input. *)
(*                                                                         *)
(* Strings are sequences of one-character strings.  An Option / OnceCell   *)
(* is a sequence of length 0 (None, unset) or 1 (Some, set).               *)
(*                                                                         *)
(* A configuration file is read at most once (it is marked visited before  *)
(* it is read).  Spec and SpecLoad therefore draw the lines of a file when *)
(* the loader reaches them instead of storing them.  SpecFiles gives each  *)
(* file its finite sequence of lines when it is read, and the loader walks *)
(* that sequence: it is the specification of the claims about the whole    *)
(* recursive load.                                                         *)
(***************************************************************************)
EXTENDS Integers, Sequences, FiniteSets, TLC

\* ---- bounds ----------------------------------------------------------
\* rules recorded over the whole load, all profiles together
MaxRules == 2
\* lines of one configuration file, where the files are given their lines
MaxLines == 2
\* nested config() / include calls in progress; the loader itself never goes
\* deeper than one frame for each file and directory
MaxDepth == 5

\* ---- the small universe the inputs are drawn from ---------------------
None == <<>>
Some(v) == <<v>>

\* canonical configuration files, the directories, and the paths naming them
Files == {"A", "B"}
Dirs == {"D"}
Paths == {"A", "B", "lnA", "D"}

ProfileIds == {"default", "work"}
AliasIds == {"ed"}

\* command templates: "a" and "b%s"
CmdPlain == <<"a">>
CmdInput == <<"b", "%", "s">>
Commands == {CmdPlain, CmdInput}

\* inputs "x" and "y"
InX == <<"x">>
InY == <<"y">>
Inputs == {InX, InY}

\* patterns: the regexes "." and "(x)", the globs "*" and "x"
Patterns == {[kind |-> "Regex", text |-> "."], [kind |-> "Regex", text |-> "(x)"],
             [kind |-> "Glob", text |-> "*"], [kind |-> "Glob", text |-> "x"]}
Actions == [kind : {"Alias"}, value : AliasIds] \cup [kind : {"Command"}, value : Commands]

\* the alphabet of the run specification: one alias value, one literal command
RunAliasCommands == {CmdPlain}
RunActions == [kind : {"Alias"}, value : AliasIds] \cup [kind : {"Command"}, value : {CmdInput}]

\* the alphabet of the load specification: one pattern of each kind
LoadPatterns == {[kind |-> "Regex", text |-> "."], [kind |-> "Glob", text |-> "*"]}

\* the lines of the files of the specification that stores them: an include
\* of each path, a switch to each profile, one alias line and one match line
FilePattern == [kind |-> "Glob", text |-> "*"]
FileAction == [kind |-> "Command", value |-> CmdPlain]
FileLines == {<<"include", t>> : t \in Paths} \cup {<<"profile", p>> : p \in ProfileIds}
             \cup {<<"alias", "ed", CmdPlain>>, <<"match", FilePattern, FileAction>>}
\* what fs::read_to_string can return: up to MaxLines lines
Contents == {Some(c) : c \in UNION {[1..n -> FileLines] : n \in 0..MaxLines}}

\* the alphabet of the specification of the preparer: a regex with two groups
\* around a dash, a regex with ten groups of one character, and the glob "*"
TwoGroups == "(.*)-(.*)"
TenGroups == "(.)(.)(.)(.)(.)(.)(.)(.)(.)(.)"
PreparePatterns == {[kind |-> "Regex", text |-> TwoGroups],
                    [kind |-> "Regex", text |-> TenGroups],
                    [kind |-> "Glob", text |-> "*"]}
\* the templates "a", "b%s", "%1", "%10", "a %1" and "%2%1"
PrepareCommands == {CmdPlain, CmdInput, <<"%", "1">>, <<"%", "1", "0">>,
                    <<"a", " ", "%", "1">>, <<"%", "2", "%", "1">>}
\* the inputs "x", "x-y", "%2-x", "%s-x", "abxyabxyab", and a line of the
\* input stream that holds a nul byte
PrepareInputs == {InX, <<"x", "-", "y">>, <<"%", "2", "-", "x">>, <<"%", "s", "-", "x">>,
                  <<"a", "b", "x", "y", "a", "b", "x", "y", "a", "b">>, <<"x", "NUL">>}

\* main.rs Args: the flags that decide the dispatch
ArgsSet == [profile : ProfileIds, fallback : BOOLEAN, fork : BOOLEAN,
            query : BOOLEAN, dry_run : BOOLEAN]

VARIABLES
    args,                 \* main.rs Args (None while the library is used alone)
    only_profiles,        \* RrrBuilder.only_profiles: None or Some(set)
    loaded_config_files,  \* RrrBuilder.loaded_config_files
    profiles,             \* RrrBuilder.profiles: profile id -> RuleSetBuilder
    current_profile,      \* RrrBuilder.current_profile
    stack,                \* the config()/include recursion in progress
    read_count,           \* per canonical file, how often it was read and parsed
    last_alias,           \* per profile and identifier, the last recorded declaration
    status,               \* where the run is
    rrr,                  \* the built Rrr: None or Some(profile id -> RuleSet)
    prepare_calls,        \* per rule of the built sets, the Rule::prepare calls made
    last                  \* the dispatch of the last input: None or Some(record)

vars == <<args, only_profiles, loaded_config_files, profiles, current_profile, stack,
          read_count, last_alias, status, rrr, prepare_calls, last>>
run_vars == <<args, status, rrr, prepare_calls, last>>

\* ---- helpers on sequences ----------------------------------------------
Min(S) == CHOOSE m \in S : \A n \in S : m <= n

\* Vec::reverse
RECURSIVE reverse(_)
reverse(s) == IF s = <<>> THEN <<>> ELSE Append(reverse(Tail(s)), Head(s))

\* the set of elements of a sequence
Range(s) == {s[i] : i \in DOMAIN s}

\* ---- the configuration loader (src/src/rrr.rs) ---------------------------

\* Path::canonicalize: "lnA" is a second name of file A
canonicalize(path) == IF path = "lnA" THEN "A" ELSE path

\* the entries fs::read_dir yields for the directory
read_dir(dir) == {"B", "lnA"}

\* RuleSetBuilder::new
RuleSetBuilder_new ==
    [alias |-> [a \in AliasIds |-> None], regex_rules |-> <<>>, glob_rules |-> <<>>]

\* the Rule that RuleSetBuilder::rule constructs; order stands for the origin
\* of the rule: its rank among the rules pushed on the same list
NewRule(pattern, action, order) ==
    [pattern |-> pattern, action |-> action, resolved |-> None, execution |-> None,
     order |-> order]

\* RuleSetBuilder::rule: push on the list of the pattern's kind
RuleSetBuilder_rule(b, pattern, action) ==
    IF pattern.kind = "Regex"
    THEN [b EXCEPT !.regex_rules =
            Append(@, NewRule(pattern, action, Len(b.regex_rules) + 1))]
    ELSE [b EXCEPT !.glob_rules =
            Append(@, NewRule(pattern, action, Len(b.glob_rules) + 1))]

\* RuleSetBuilder::alias keeping the first declaration of an identifier
RuleSetBuilder_alias_keep_first(b, identifier, action_command) ==
    IF b.alias[identifier] # None THEN b
    ELSE [b EXCEPT !.alias[identifier] = Some(action_command)]

\* RuleSetBuilder::alias: HashMap insert, the last write wins
RuleSetBuilder_alias(b, identifier, action_command) ==
    [b EXCEPT !.alias[identifier] = Some(action_command)]

\* RrrBuilder::is_profile_loadable that lets every profile through
is_profile_loadable_always == TRUE

\* RrrBuilder::is_profile_loadable
is_profile_loadable ==
    IF only_profiles # None THEN current_profile \in only_profiles[1] ELSE TRUE

RECURSIVE SumLen(_, _)
SumLen(f, S) ==
    IF S = {} THEN 0
    ELSE LET p == CHOOSE q \in S : TRUE
         IN Len(f[p].regex_rules) + Len(f[p].glob_rules) + SumLen(f, S \ {p})

\* rules recorded so far, over all profiles
RuleCount == SumLen(profiles, DOMAIN profiles)

Top == stack[Len(stack)]
Pop == SubSeq(stack, 1, Len(stack) - 1)
InFile == status = "loading" /\ stack # <<>> /\ Top.kind = "file"

\* the loop over the lines of the file being parsed: line is the next one
\* (any line can be the next one of a file whose lines are not stored)
NextLineIs(line) ==
    \/ Top.lines = None
    \/ /\ Top.lines # None
       /\ Top.pos < Len(Top.lines[1])
       /\ Top.lines[1][Top.pos + 1] = line

\* the loop over the lines has no line left
NoLineLeft == Top.lines = None \/ (Top.lines # None /\ Top.pos = Len(Top.lines[1]))

\* the recursion once the loop has taken the next line
Consumed == IF Top.lines = None THEN stack ELSE [stack EXCEPT ![Len(stack)].pos = @ + 1]

\* RrrBuilder::new
RrrBuilder_new ==
    /\ loaded_config_files = {}
    /\ profiles = [p \in {"default"} |-> RuleSetBuilder_new]
    /\ current_profile = "default"
    /\ stack = <<>>
    /\ read_count = [f \in Files |-> 0]
    /\ last_alias = [p \in ProfileIds |-> [a \in AliasIds |-> None]]
    /\ status = "loading"
    /\ rrr = None
    /\ prepare_calls = <<>>
    /\ last = None

\* main.rs try_main: the arguments are parsed and the builder is created with
\* the selected profile as its allow-list
Init ==
    /\ args \in {Some(a) : a \in ArgsSet}
    /\ only_profiles = Some({args[1].profile})
    /\ RrrBuilder_new

\* the library used by any driver: RrrBuilder::new with any allow-list
InitLoad ==
    /\ args = None
    /\ only_profiles \in {None} \cup {Some({p}) : p \in ProfileIds}
    /\ RrrBuilder_new

\* the frame of a config() call: the file, what fs::read_to_string returned
\* (None when the lines are not stored) and the lines parsed so far
FileFrame(canon, content) ==
    [kind |-> "file", file |-> canon, todo |-> {}, lines |-> content, pos |-> 0]

\* the frame of the read_dir loop of parse_meta_include_rec
DirFrame(dir) ==
    [kind |-> "dir", file |-> dir, todo |-> read_dir(dir), lines |-> None, pos |-> 0]

\* RrrBuilder::config without the test of the visited set
config_no_visited_test(file_path, stk, content) ==
    LET canon == canonicalize(file_path) IN
    /\ loaded_config_files' = loaded_config_files \cup {canon}
    /\ read_count' = [read_count EXCEPT ![canon] = @ + 1]
    /\ stack' = Append(stk, FileFrame(canon, content))

\* RrrBuilder::config that never marks the file as visited
config_no_mark(file_path, stk, content) ==
    LET canon == canonicalize(file_path) IN
    IF canon \in loaded_config_files
    THEN /\ stack' = stk
         /\ UNCHANGED <<loaded_config_files, read_count>>
    ELSE /\ UNCHANGED loaded_config_files
         /\ read_count' = [read_count EXCEPT ![canon] = @ + 1]
         /\ stack' = Append(stk, FileFrame(canon, content))

\* RrrBuilder::config called on file_path with the recursion stk below it;
\* content is what fs::read_to_string returns for the file
config(file_path, stk, content) ==
    LET canon == canonicalize(file_path) IN
    IF canon \in loaded_config_files
    THEN /\ stack' = stk
         /\ UNCHANGED <<loaded_config_files, read_count>>
    ELSE /\ loaded_config_files' = loaded_config_files \cup {canon}
         /\ read_count' = [read_count EXCEPT ![canon] = @ + 1]
         /\ stack' = Append(stk, FileFrame(canon, content))

\* RrrBuilder::parse_meta_include_rec on target_path
parse_meta_include_rec(target_path, stk, content) ==
    IF target_path \in Dirs
    THEN /\ stack' = Append(stk, DirFrame(target_path))
         /\ UNCHANGED <<loaded_config_files, read_count>>
    ELSE config(target_path, stk, content)

\* a top-level RrrBuilder::config call (main.rs: the configuration files)
ConfigTop(file_path, content) ==
    /\ status = "loading" /\ stack = <<>>
    /\ config(file_path, stack, content)
    /\ UNCHANGED <<profiles, current_profile, last_alias>>
    /\ UNCHANGED <<only_profiles, run_vars>>

\* parse_line on a ":include" line
ParseMetaInclude(target, content) ==
    /\ InFile
    /\ NextLineIs(<<"include", target>>)
    /\ Len(stack) < MaxDepth
    /\ parse_meta_include_rec(target, Consumed, content)
    /\ UNCHANGED <<profiles, current_profile, last_alias>>
    /\ UNCHANGED <<only_profiles, run_vars>>

\* one iteration of the read_dir loop of parse_meta_include_rec
IncludeDirEntry(entry, content) ==
    /\ status = "loading" /\ stack # <<>> /\ Top.kind = "dir"
    /\ entry \in Top.todo
    /\ Len(stack) < MaxDepth
    /\ parse_meta_include_rec(entry, [stack EXCEPT ![Len(stack)].todo = @ \ {entry}],
                              content)
    /\ UNCHANGED <<profiles, current_profile, last_alias>>
    /\ UNCHANGED <<only_profiles, run_vars>>

\* the read_dir loop is over: parse_meta_include_rec returns
IncludeDirDone ==
    /\ status = "loading" /\ stack # <<>> /\ Top.kind = "dir"
    /\ Top.todo = {}
    /\ stack' = Pop
    /\ UNCHANGED <<loaded_config_files, profiles, current_profile, read_count, last_alias>>
    /\ UNCHANGED <<only_profiles, run_vars>>

\* parse_line on a ":profile" line
ParseMetaProfile(target) ==
    /\ InFile
    /\ NextLineIs(<<"profile", target>>)
    /\ profiles' = IF target \in DOMAIN profiles THEN profiles
                   ELSE [p \in DOMAIN profiles \cup {target} |->
                           IF p = target THEN RuleSetBuilder_new ELSE profiles[p]]
    /\ current_profile' = target
    /\ stack' = Consumed
    /\ UNCHANGED <<loaded_config_files, read_count, last_alias>>
    /\ UNCHANGED <<only_profiles, run_vars>>

\* parse_line on an alias line "identifier = target"
ParseAlias(identifier, target) ==
    /\ InFile
    /\ NextLineIs(<<"alias", identifier, target>>)
    /\ stack' = Consumed
    /\ IF ~is_profile_loadable
       THEN UNCHANGED <<profiles, last_alias>>
       ELSE /\ profiles' = [profiles EXCEPT ![current_profile] =
                              RuleSetBuilder_alias(@, identifier, target)]
            /\ last_alias' = [last_alias EXCEPT ![current_profile][identifier] =
                                Some(target)]
    /\ UNCHANGED <<loaded_config_files, current_profile, read_count>>
    /\ UNCHANGED <<only_profiles, run_vars>>

\* parse_line on a match line "pattern -> target"
ParseMatch(pattern, action) ==
    /\ InFile
    /\ NextLineIs(<<"match", pattern, action>>)
    /\ Top.lines # None \/ RuleCount < MaxRules
    /\ stack' = Consumed
    /\ profiles' = IF ~is_profile_loadable THEN profiles
                   ELSE [profiles EXCEPT ![current_profile] =
                           RuleSetBuilder_rule(@, pattern, action)]
    /\ UNCHANGED <<loaded_config_files, current_profile, read_count, last_alias>>
    /\ UNCHANGED <<only_profiles, run_vars>>

\* parse_line on an invalid line: the error ends the load
ParseInvalid ==
    /\ InFile
    /\ NextLineIs(<<"invalid">>)
    /\ status' = "load_error"
    /\ stack' = <<>>
    /\ UNCHANGED <<loaded_config_files, profiles, current_profile, read_count, last_alias>>
    /\ UNCHANGED <<only_profiles, args, rrr, prepare_calls, last>>

\* config returning with the current profile set back to "default"
ConfigReturn_reset_profile ==
    /\ InFile
    /\ NoLineLeft
    /\ stack' = Pop
    /\ current_profile' = "default"
    /\ UNCHANGED <<loaded_config_files, profiles, read_count, last_alias>>
    /\ UNCHANGED <<only_profiles, run_vars>>

\* the lines of the file are exhausted: config returns
ConfigReturn ==
    /\ InFile
    /\ NoLineLeft
    /\ stack' = Pop
    /\ UNCHANGED <<loaded_config_files, profiles, current_profile, read_count, last_alias>>
    /\ UNCHANGED <<only_profiles, run_vars>>

\* ---- the build (src/src/rule_set.rs, src/src/rrr.rs) ---------------------

\* impl RuleResolver for &RuleSetBuilder: the command of an action, None when
\* the alias does not exist in the profile
RuleResolver_resolve(b, action) ==
    IF action.kind = "Command" THEN Some(action.value) ELSE b.alias[action.value]

\* Rule::resolve
Rule_resolve(rule, b) ==
    LET r == RuleResolver_resolve(b, rule.action) IN
    IF r = None THEN [tag |-> "err", rule |-> rule]
    ELSE IF rule.resolved # None THEN [tag |-> "panic", rule |-> rule]
    ELSE [tag |-> "ok", rule |-> [rule EXCEPT !.resolved = r]]

\* RuleSetBuilder::resolve: every rule of the list, the first error returns
RECURSIVE RuleSetBuilder_resolve(_, _)
RuleSetBuilder_resolve(b, rules) ==
    IF rules = <<>> THEN [tag |-> "ok", rules |-> <<>>]
    ELSE LET r == Rule_resolve(Head(rules), b) IN
         IF r.tag # "ok" THEN [tag |-> r.tag, rules |-> <<>>]
         ELSE LET rest == RuleSetBuilder_resolve(b, Tail(rules)) IN
              IF rest.tag # "ok" THEN rest
              ELSE [tag |-> "ok", rules |-> <<r.rule>> \o rest.rules]

\* RuleSetBuilder::build without the reversal of the lists
RuleSetBuilder_build_no_reverse(b) ==
    LET re == RuleSetBuilder_resolve(b, b.regex_rules)
        gl == RuleSetBuilder_resolve(b, b.glob_rules)
    IN  IF re.tag # "ok" THEN [tag |-> re.tag, rule_set |-> None]
        ELSE IF gl.tag # "ok" THEN [tag |-> gl.tag, rule_set |-> None]
        ELSE [tag |-> "ok",
              rule_set |-> Some([regex_rules |-> re.rules, glob_rules |-> gl.rules])]

\* RuleSetBuilder::build: resolve, then reverse both lists; the RegexSet and
\* the GlobSet are compiled from the reversed lists, index for index
RuleSetBuilder_build(b) ==
    LET re == RuleSetBuilder_resolve(b, b.regex_rules)
        gl == RuleSetBuilder_resolve(b, b.glob_rules)
    IN  IF re.tag # "ok" THEN [tag |-> re.tag, rule_set |-> None]
        ELSE IF gl.tag # "ok" THEN [tag |-> gl.tag, rule_set |-> None]
        ELSE [tag |-> "ok",
              rule_set |-> Some([regex_rules |-> reverse(re.rules),
                                 glob_rules |-> reverse(gl.rules)])]

\* RrrBuilder::build keeping the profiles that could be built
RrrBuilder_build_partial(ps) ==
    LET built == [p \in DOMAIN ps |-> RuleSetBuilder_build(ps[p])] IN
    Some([p \in {q \in DOMAIN ps : built[q].tag = "ok"} |-> built[p].rule_set[1]])

\* RrrBuilder::build: every profile is built; one failure fails the whole
RrrBuilder_build(ps) ==
    LET built == [p \in DOMAIN ps |-> RuleSetBuilder_build(ps[p])] IN
    IF \A p \in DOMAIN ps : built[p].tag = "ok"
    THEN Some([p \in DOMAIN ps |-> built[p].rule_set[1]])
    ELSE None

\* the references to the rules of a rule set: the kind and the index
Refs(rs) == {[kind |-> "Regex", index |-> i] : i \in DOMAIN rs.regex_rules}
            \cup {[kind |-> "Glob", index |-> i] : i \in DOMAIN rs.glob_rules}

\* main.rs try_main: builder.build()
Build ==
    /\ status = "loading" /\ stack = <<>>
    /\ rrr' = RrrBuilder_build(profiles)
    /\ status' = IF rrr' = None THEN "build_error" ELSE "running"
    /\ prepare_calls' =
         IF rrr' # None /\ args # None /\ args[1].profile \in DOMAIN rrr'[1]
         THEN [r \in Refs(rrr'[1][args[1].profile]) |-> 0]
         ELSE <<>>
    /\ UNCHANGED <<args, only_profiles, loaded_config_files, profiles, current_profile,
                   stack, read_count, last_alias, last>>

\* ---- the matcher (src/src/rule_set.rs) ----------------------------------

\* does the pattern match the input: the regex "." matches any non-empty
\* input, the regex "(x)" any input that contains "x", the regex with two
\* groups any input that contains a dash, the regex with ten groups any input
\* of ten characters or more, the glob "*" any input and the glob "x" the
\* input "x" alone
is_match(pattern, input) ==
    IF pattern.kind = "Regex"
    THEN CASE pattern.text = "." -> input # <<>>
           [] pattern.text = TwoGroups -> "-" \in Range(input)
           [] pattern.text = TenGroups -> Len(input) >= 10
           [] OTHER -> "x" \in Range(input)
    ELSE IF pattern.text = "*" THEN TRUE ELSE input = <<"x">>

\* RegexSet::matches / GlobSet::matches: the indexes of the matching patterns
set_matches(rules, input) == {i \in DOMAIN rules : is_match(rules[i].pattern, input)}

Max(S) == CHOOSE m \in S : \A n \in S : m >= n

\* RuleSet::match_regex taking the last index of the matches
match_regex_last(rs, input) ==
    LET m == set_matches(rs.regex_rules, input) IN
    IF m = {} THEN None ELSE Some([kind |-> "Regex", index |-> Max(m)])

\* RuleSet::match_regex: the first index of the matches
match_regex(rs, input) ==
    LET m == set_matches(rs.regex_rules, input) IN
    IF m = {} THEN None ELSE Some([kind |-> "Regex", index |-> Min(m)])

\* RuleSet::match_glob
match_glob(rs, input) ==
    LET m == set_matches(rs.glob_rules, input) IN
    IF m = {} THEN None ELSE Some([kind |-> "Glob", index |-> Min(m)])

\* RuleSet::match asking the glob rules first
match_glob_first(rs, input) ==
    IF match_glob(rs, input) # None THEN match_glob(rs, input)
    ELSE IF match_regex(rs, input) # None THEN match_regex(rs, input)
    ELSE None

\* RuleSet::match
match(rs, input) ==
    IF match_regex(rs, input) # None THEN match_regex(rs, input)
    ELSE IF match_glob(rs, input) # None THEN match_glob(rs, input)
    ELSE None

\* the indexes of a set as the ascending sequence
RECURSIVE ascending(_)
ascending(S) == IF S = {} THEN <<>> ELSE <<Min(S)>> \o ascending(S \ {Min(S)})

\* RuleSet::matches: every matching rule, the regex rules before the glob
\* rules, each kind in index order
matches(rs, input) ==
    LET re == ascending(set_matches(rs.regex_rules, input))
        gl == ascending(set_matches(rs.glob_rules, input))
    IN  [i \in 1..Len(re) |-> [kind |-> "Regex", index |-> re[i]]]
        \o [i \in 1..Len(gl) |-> [kind |-> "Glob", index |-> gl[i]]]

\* the rule a reference names
rule_at(rs, ref) ==
    IF ref.kind = "Regex" THEN rs.regex_rules[ref.index] ELSE rs.glob_rules[ref.index]

set_rule(rs, ref, rule) ==
    IF ref.kind = "Regex" THEN [rs EXCEPT !.regex_rules[ref.index] = rule]
    ELSE [rs EXCEPT !.glob_rules[ref.index] = rule]

\* ---- the preparer (src/src/rule_set.rs, src/src/utils.rs) ----------------

\* characters shlex leaves unquoted
SafeChars == {"a", "b", "s", "x", "y", "-", "0", "1", "2", "3", "4", "5", "6", "7", "8", "9"}

\* utils::quote (shlex::try_quote): an error on a nul byte, '' for the empty
\* string, the string itself when every character is safe, and the string
\* between single quotes otherwise
quote(s) ==
    IF "NUL" \in Range(s) THEN [ok |-> FALSE, value |-> <<>>]
    ELSE IF s = <<>> THEN [ok |-> TRUE, value |-> <<"'", "'">>]
    ELSE IF Range(s) \subseteq SafeChars THEN [ok |-> TRUE, value |-> s]
    ELSE [ok |-> TRUE, value |-> <<"'">> \o s \o <<"'">>]

\* is pat a prefix of s
starts_with(s, pat) == Len(pat) <= Len(s) /\ SubSeq(s, 1, Len(pat)) = pat

\* str::contains
contains(s, pat) == \E i \in 0..Len(s) : starts_with(SubSeq(s, i + 1, Len(s)), pat)

\* str::replace: the non-overlapping occurrences, from the left
RECURSIVE replace(_, _, _)
replace(s, from, to) ==
    IF s = <<>> THEN <<>>
    ELSE IF starts_with(s, from)
         THEN to \o replace(SubSeq(s, Len(from) + 1, Len(s)), from, to)
         ELSE <<Head(s)>> \o replace(Tail(s), from, to)

\* the decimal digits of a positive number (format!("{}", n))
RECURSIVE decimal(_)
decimal(n) ==
    LET d == <<"0", "1", "2", "3", "4", "5", "6", "7", "8", "9">>[(n % 10) + 1] IN
    IF n < 10 THEN <<d>> ELSE decimal(n \div 10) \o <<d>>

\* Rule::substitute_file
substitute_file(action, input) ==
    LET action_with_tag == IF contains(action, <<"%", "s">>) THEN action
                           ELSE action \o <<" ", "%", "s">>
        q == quote(input)
    IN  IF ~q.ok THEN [ok |-> FALSE, value |-> <<>>]
        ELSE [ok |-> TRUE, value |-> replace(action_with_tag, <<"%", "s">>, q.value)]

\* Rule::substitute_captures: capture i replaces the tag %i, in order
RECURSIVE substitute_captures_from(_, _, _)
substitute_captures_from(action, captures, i) ==
    IF i > Len(captures) THEN [ok |-> TRUE, value |-> action]
    ELSE LET q == quote(captures[i]) IN
         IF ~q.ok THEN [ok |-> FALSE, value |-> <<>>]
         ELSE substitute_captures_from(replace(action, <<"%">> \o decimal(i), q.value),
                                       captures, i + 1)

substitute_captures(action, captures) == substitute_captures_from(action, captures, 1)

\* Regex::captures on an input the regex matches: the groups after group 0.
\* The two groups are the text before and after the last dash (the first
\* group is greedy), the ten groups the first ten characters
regex_captures(pattern, input) ==
    CASE pattern.text = "(x)" -> <<(<<"x">>)>>
      [] pattern.text = TwoGroups ->
           LET d == Max({i \in DOMAIN input : input[i] = "-"}) IN
           <<SubSeq(input, 1, d - 1), SubSeq(input, d + 1, Len(input))>>
      [] pattern.text = TenGroups -> [i \in 1..10 |-> <<input[i]>>]
      [] OTHER -> <<>>

\* Rule::captures
Rule_captures(rule, input) ==
    IF rule.pattern.kind = "Glob" THEN [ok |-> TRUE, value |-> <<>>]
    ELSE IF ~is_match(rule.pattern, input) THEN [ok |-> FALSE, value |-> <<>>]
    ELSE [ok |-> TRUE, value |-> regex_captures(rule.pattern, input)]

\* Rule::substitute with a plain assignment in place of the OnceCell
Rule_substitute_overwrite(rule, captures, input) ==
    IF rule.resolved = None THEN [tag |-> "panic", rule |-> rule]
    ELSE LET c == substitute_captures(rule.resolved[1], captures) IN
         IF ~c.ok THEN [tag |-> "err", rule |-> rule]
         ELSE LET f == substitute_file(c.value, input) IN
              IF ~f.ok THEN [tag |-> "err", rule |-> rule]
              ELSE [tag |-> "ok", rule |-> [rule EXCEPT !.execution = Some(f.value)]]

\* Rule::substitute: the OnceCell refuses a second value and the expect panics
Rule_substitute(rule, captures, input) ==
    IF rule.resolved = None THEN [tag |-> "panic", rule |-> rule]
    ELSE LET c == substitute_captures(rule.resolved[1], captures) IN
         IF ~c.ok THEN [tag |-> "err", rule |-> rule]
         ELSE LET f == substitute_file(c.value, input) IN
              IF ~f.ok THEN [tag |-> "err", rule |-> rule]
              ELSE IF rule.execution # None THEN [tag |-> "panic", rule |-> rule]
              ELSE [tag |-> "ok", rule |-> [rule EXCEPT !.execution = Some(f.value)]]

\* Rule::prepare
Rule_prepare(rule, input) ==
    LET c == Rule_captures(rule, input) IN
    IF ~c.ok THEN [tag |-> "err", rule |-> rule]
    ELSE Rule_substitute(rule, c.value, input)

\* ---- the dispatcher (src/src/main.rs) ------------------------------------

\* what the operating system makes of a command: it runs and succeeds, or it
\* cannot be spawned or exits with a failure
OsOutcomes == {"ok", "fail"}

\* the outcome of the i-th command; a command that is not executed has none
os_at(os, i) == IF i \in DOMAIN os THEN os[i] ELSE "ok"

\* the wait-and-check execution: the child is awaited, a failure is an error
exec_wait(os) == IF os = "ok" THEN "ok" ELSE "fail"

\* Rule::exec: fork returns once the child is spawned; exec replaces the
\* process and returns only when it failed
Rule_exec(execution_type, os) ==
    IF execution_type = "WaitSuccessSignalOk" THEN exec_wait(os)
    ELSE IF execution_type = "Fork" THEN (IF os = "ok" THEN "ok" ELSE "fail")
    ELSE (IF os = "ok" THEN "replaced" ELSE "fail")

\* process_rule choosing the execution type without looking at the fallback
\* flag
execution_type_ignoring_fallback(a) ==
    IF a.fork THEN "Fork" ELSE "Exec"

\* process_rule: the execution type the flags select
execution_type(a) ==
    IF a.fallback THEN "WaitSuccessSignalOk"
    ELSE IF a.fork THEN "Fork"
    ELSE "Exec"

\* process_rule after its call of Rule::prepare, whose result is p: print
\* (query), do nothing (dry-run) or execute.  The event records what was done
\* with the rule: the execution type used (mode) and what came of it (exec).
\* tag: panic, err (the preparation failed), none (nothing executed), or the
\* result of the execution: ok, fail, replaced
process_prepared(a, rs, ref, os, p) ==
    IF p.tag # "ok"
    THEN [tag |-> p.tag, rs |-> rs,
          event |-> [rule |-> ref, prepared |-> FALSE, printed |-> FALSE, exec |-> "none",
                     mode |-> "none"]]
    ELSE [tag |-> IF a.query \/ a.dry_run THEN "none"
                  ELSE Rule_exec(execution_type(a), os),
          rs |-> set_rule(rs, ref, p.rule),
          event |-> [rule |-> ref, prepared |-> TRUE, printed |-> a.query,
                     exec |-> IF a.query \/ a.dry_run THEN "none"
                              ELSE Rule_exec(execution_type(a), os),
                     mode |-> IF a.query \/ a.dry_run THEN "none"
                              ELSE execution_type(a)]]

\* process_rule
process_rule(a, rs, input, ref, os) ==
    process_prepared(a, rs, ref, os, Rule_prepare(rule_at(rs, ref), input))

\* process_input_without_fallback after its call of process_rule, whose result
\* is r: the preparation error and the execution error are both returned
without_fallback_result(m, r) ==
    [result |-> CASE r.tag \in {"none", "ok"} -> "ok"
                  [] r.tag \in {"err", "fail"} -> "err"
                  [] OTHER -> r.tag,
     rs |-> r.rs, candidates |-> m, log |-> <<r.event>>]

\* process_input_without_fallback returning an error when no rule matches
process_input_without_fallback_no_match_err(a, rs, input, os) ==
    IF match(rs, input) = None
    THEN [result |-> "err", rs |-> rs, candidates |-> <<>>, log |-> <<>>]
    ELSE without_fallback_result(match(rs, input),
             process_rule(a, rs, input, match(rs, input)[1], os_at(os, 1)))

\* process_input_without_fallback, on the rule set of the selected profile
\* result: ok, err (an error is returned), panic, replaced
process_input_without_fallback(a, rs, input, os) ==
    IF match(rs, input) = None
    THEN [result |-> "ok", rs |-> rs, candidates |-> <<>>, log |-> <<>>]
    ELSE without_fallback_result(match(rs, input),
             process_rule(a, rs, input, match(rs, input)[1], os_at(os, 1)))

RECURSIVE fallback_walk(_, _, _, _, _, _, _)

\* the match of process_input_with_fallback on the result r of process_rule
\* for candidate i: a success returns, a failure or no execution goes on with
\* the next candidate, a preparation error is returned
fallback_step(a, input, cands, os, i, log, r) ==
    CASE r.tag = "ok" ->
           [result |-> "ok", rs |-> r.rs, candidates |-> cands, log |-> Append(log, r.event)]
      [] r.tag \in {"fail", "none"} ->
           fallback_walk(a, r.rs, input, cands, os, i + 1, Append(log, r.event))
      [] r.tag = "err" ->
           [result |-> "err", rs |-> r.rs, candidates |-> cands, log |-> Append(log, r.event)]
      [] OTHER ->
           [result |-> r.tag, rs |-> r.rs, candidates |-> cands, log |-> Append(log, r.event)]

\* the loop of process_input_with_fallback from candidate i on
fallback_walk(a, rs, input, cands, os, i, log) ==
    IF i > Len(cands) THEN [result |-> "ok", rs |-> rs, candidates |-> cands, log |-> log]
    ELSE fallback_step(a, input, cands, os, i, log,
                       process_rule(a, rs, input, cands[i], os_at(os, i)))

\* process_input_with_fallback that gives up after its first candidate
process_input_with_fallback_first_only(a, rs, input, os) ==
    LET cands == matches(rs, input) IN
    IF cands = <<>> THEN [result |-> "ok", rs |-> rs, candidates |-> cands, log |-> <<>>]
    ELSE [without_fallback_result(cands,
              process_rule(a, rs, input, cands[1], os_at(os, 1)))
          EXCEPT !.result = IF @ = "err" THEN "ok" ELSE @]

\* process_input_with_fallback
process_input_with_fallback(a, rs, input, os) ==
    fallback_walk(a, rs, input, matches(rs, input), os, 1, <<>>)

\* process_input
process_input(a, rs, input, os) ==
    IF a.fallback THEN process_input_with_fallback(a, rs, input, os)
    ELSE process_input_without_fallback(a, rs, input, os)

\* the prepare calls of one dispatch added to the count of each rule
count_prepares(calls, log) ==
    [r \in DOMAIN calls |-> calls[r] + Cardinality({i \in DOMAIN log : log[i].rule = r})]

\* what the operating system makes of the commands one input can execute:
\* one outcome for each candidate, none when nothing is executed
OsChoices(input) ==
    IF status # "running" THEN {}
    ELSE LET a == args[1]
             n == IF a.profile \notin DOMAIN rrr[1] \/ a.query \/ a.dry_run THEN 0
                  ELSE IF a.fallback THEN Len(matches(rrr[1][a.profile], input))
                  ELSE Len(match(rrr[1][a.profile], input))
         IN  [1..n -> OsOutcomes]

\* one iteration of the loop over the inputs of try_main; os[i] is what the
\* operating system makes of the command of candidate i
ProcessInput(input, os) ==
    /\ status = "running"
    /\ os \in OsChoices(input)
    /\ IF args[1].profile \notin DOMAIN rrr[1]
       THEN \* Rrr::profile: the profile does not exist
            /\ status' = "error"
            /\ last' = Some([input |-> input, result |-> "err", candidates |-> <<>>,
                             log |-> <<>>])
            /\ UNCHANGED <<rrr, prepare_calls>>
       ELSE \E r \in {process_input(args[1], rrr[1][args[1].profile], input, os)} :
                /\ rrr' = Some([rrr[1] EXCEPT ![args[1].profile] = r.rs])
                /\ prepare_calls' = count_prepares(prepare_calls, r.log)
                /\ last' = Some([input |-> input, result |-> r.result,
                                 candidates |-> r.candidates, log |-> r.log])
                /\ status' = CASE r.result = "ok" -> "running"
                               [] r.result = "err" -> "error"
                               [] OTHER -> r.result
    /\ UNCHANGED <<args, only_profiles, loaded_config_files, profiles, current_profile,
                   stack, read_count, last_alias>>

\* the inputs are exhausted: try_main returns Ok
AllInputsProcessed ==
    /\ status = "running"
    /\ status' = "done"
    /\ UNCHANGED <<args, only_profiles, loaded_config_files, profiles, current_profile,
                   stack, read_count, last_alias, rrr, prepare_calls, last>>

NextLoad ==
    \/ \E f \in Paths \ Dirs : ConfigTop(f, None)
    \/ \E t \in Paths : ParseMetaInclude(t, None)
    \/ \E e \in Paths : IncludeDirEntry(e, None)
    \/ IncludeDirDone
    \/ \E p \in ProfileIds : ParseMetaProfile(p)
    \/ \E a \in AliasIds, c \in Commands : ParseAlias(a, c)
    \/ \E p \in LoadPatterns, a \in Actions : ParseMatch(p, a)
    \/ ParseInvalid
    \/ ConfigReturn
    \/ Build

\* the loader and the build, under any allow-list
SpecLoad == InitLoad /\ [][NextLoad]_vars

\* one step of the loader inside a top-level config() call, on files whose
\* lines are stored
LoaderStep ==
    \/ \E t \in Paths, c \in Contents : ParseMetaInclude(t, c)
    \/ \E e \in Paths, c \in Contents : IncludeDirEntry(e, c)
    \/ IncludeDirDone
    \/ \E p \in ProfileIds : ParseMetaProfile(p)
    \/ ParseAlias("ed", CmdPlain)
    \/ ParseMatch(FilePattern, FileAction)
    \/ ConfigReturn

NextFiles ==
    \/ \E f \in Paths \ Dirs, c \in Contents : ConfigTop(f, c)
    \/ \E t \in Paths, c \in Contents : ParseMetaInclude(t, c)
    \/ \E e \in Paths, c \in Contents : IncludeDirEntry(e, c)
    \/ IncludeDirDone
    \/ \E p \in ProfileIds : ParseMetaProfile(p)
    \/ ParseAlias("ed", CmdPlain)
    \/ ParseMatch(FilePattern, FileAction)
    \/ ConfigReturn
    \/ Build

\* the loader on finite files: the code is sequential, so a config() call in
\* progress always takes its next step
SpecFiles == InitLoad /\ [][NextFiles]_vars /\ WF_vars(LoaderStep)

\* the program after it loaded a configuration file of one match line with a
\* literal command into the profile "default", and built it
InitPrepare ==
    /\ args \in {Some(a) : a \in {b \in ArgsSet : b.profile = "default"}}
    /\ only_profiles = Some({"default"})
    /\ loaded_config_files = {"A"}
    /\ current_profile = "default"
    /\ stack = <<>>
    /\ read_count = [f \in Files |-> IF f = "A" THEN 1 ELSE 0]
    /\ last_alias = [p \in ProfileIds |-> [a \in AliasIds |-> None]]
    /\ \E p \in PreparePatterns, c \in PrepareCommands :
          /\ profiles = [q \in {"default"} |->
                           RuleSetBuilder_rule(RuleSetBuilder_new, p,
                                               [kind |-> "Command", value |-> c])]
          /\ rrr = RrrBuilder_build(profiles)
          /\ prepare_calls = [r \in Refs(rrr[1]["default"]) |-> 0]
    /\ status = "running"
    /\ last = None

NextPrepare ==
    \/ \E i \in PrepareInputs : \E os \in OsChoices(i) : ProcessInput(i, os)
    \/ AllInputsProcessed

\* the dispatch of inputs on one rule: the preparer on every pattern kind,
\* template and input
SpecPrepare == InitPrepare /\ [][NextPrepare]_vars

\* one run of the program on one configuration file
Next ==
    \/ ConfigTop("A", None)
    \/ \E p \in ProfileIds : ParseMetaProfile(p)
    \/ \E a \in AliasIds, c \in RunAliasCommands : ParseAlias(a, c)
    \/ \E p \in Patterns, a \in RunActions : ParseMatch(p, a)
    \/ ConfigReturn
    \/ Build
    \/ \E i \in Inputs : \E os \in OsChoices(i) : ProcessInput(i, os)
    \/ AllInputsProcessed

Spec == Init /\ [][Next]_vars

\* ---- the claims ------------------------------------------------------------

\* the selected profile is built: its rule set can be matched against
Built == rrr # None /\ args # None /\ args[1].profile \in DOMAIN rrr[1]

\* the rule set of the selected profile
RS == rrr[1][args[1].profile]

\* an input has been dispatched under the fallback policy
FallbackDone == Built /\ args[1].fallback /\ last # None

\* C1: over the inputs of one run, Rule::prepare is called at most once on
\* each rule of the built rule set, and no fault is reached: a rule matched
\* again by a later input is not prepared again
C1_PrepareAtMostOnce ==
    /\ \A r \in DOMAIN prepare_calls : prepare_calls[r] <= 1
    /\ status # "panic"

\* every rule of a list has its execution cell set only with its resolved cell
CellsOrdered(rules) == \A i \in DOMAIN rules : rules[i].execution # None => rules[i].resolved # None

\* a cell of rules that holds a value holds the same value in rules2, at the
\* same index (n = 0) or at index n + 1 - i
CellsKept(rules, rules2, n) ==
    \A i \in DOMAIN rules :
        LET j == IF n = 0 THEN i ELSE n + 1 - i IN
        /\ rules[i].resolved # None =>
             j \in DOMAIN rules2 /\ rules2[j].resolved = rules[i].resolved
        /\ rules[i].execution # None =>
             j \in DOMAIN rules2 /\ rules2[j].execution = rules[i].execution

\* in every rule of the builders and of the built rule sets, execution is set
\* only if resolved is set
ExecutionOnlyIfResolved ==
    /\ \A p \in DOMAIN profiles :
         CellsOrdered(profiles[p].regex_rules) /\ CellsOrdered(profiles[p].glob_rules)
    /\ rrr # None => \A p \in DOMAIN rrr[1] :
         CellsOrdered(rrr[1][p].regex_rules) /\ CellsOrdered(rrr[1][p].glob_rules)

\* a step changes no cell that holds a value: not in a builder, not in a built
\* rule set, and not in the build, which moves rule i of a list of n rules to
\* index n + 1 - i
CellsWriteOnce ==
    /\ \A p \in DOMAIN profiles :
         /\ CellsKept(profiles[p].regex_rules, profiles'[p].regex_rules, 0)
         /\ CellsKept(profiles[p].glob_rules, profiles'[p].glob_rules, 0)
    /\ rrr # None => rrr' # None /\ \A p \in DOMAIN rrr[1] :
         /\ CellsKept(rrr[1][p].regex_rules, rrr'[1][p].regex_rules, 0)
         /\ CellsKept(rrr[1][p].glob_rules, rrr'[1][p].glob_rules, 0)
    /\ (rrr = None /\ rrr' # None) => \A p \in DOMAIN profiles :
         /\ CellsKept(profiles[p].regex_rules, rrr'[1][p].regex_rules,
                      Len(profiles[p].regex_rules))
         /\ CellsKept(profiles[p].glob_rules, rrr'[1][p].glob_rules,
                      Len(profiles[p].glob_rules))

\* C2: in every reachable state of every rule, execution (prepared_command)
\* is set only if resolved (resolved_command) is set, and a field that holds a
\* value keeps that value in every later state, whatever build, match and
\* prepare operations follow
C2_WriteOnceCells == []ExecutionOnlyIfResolved /\ [][CellsWriteOnce]_vars

\* C2 witness: a rule prepared for the input "x" was matched again by the
\* input "y", and its execution cell still holds the command made for "x"
C2_Witness ==
    /\ Built /\ last # None /\ last[1].input = InY
    /\ \E r \in DOMAIN prepare_calls :
         /\ prepare_calls[r] = 2
         /\ rule_at(RS, r).resolved = Some(CmdInput)
         /\ rule_at(RS, r).execution = Some(<<"b", "x">>)

\* C3: under the fallback policy the candidates that matches returned are
\* attempted strictly in priority order; the walk stops at the first candidate
\* whose execution succeeds (no later candidate is prepared or executed and
\* the input is reported as success), and process_rule is called on the next
\* candidate after every candidate whose execution fails
C3_FallbackWalk ==
    FallbackDone =>
        LET L == last[1] IN
        /\ L.candidates = matches(RS, L.input)
        /\ Len(L.log) <= Len(L.candidates)
        /\ \A i \in DOMAIN L.log : L.log[i].rule = L.candidates[i]
        /\ \A i \in DOMAIN L.log :
             L.log[i].exec = "ok" => i = Len(L.log) /\ L.result = "ok"
        /\ \A i \in DOMAIN L.log :
             (L.log[i].exec = "fail" /\ i < Len(L.candidates)) => i + 1 \in DOMAIN L.log

\* C3 witness: the execution of the first candidate failed, the second one was
\* executed with success and the input is reported as success
C3_Witness ==
    /\ FallbackDone
    /\ Len(last[1].candidates) = 2 /\ Len(last[1].log) = 2
    /\ last[1].log[1].exec = "fail" /\ last[1].log[2].exec = "ok"
    /\ last[1].result = "ok"

\* C4: under the fallback policy, when the candidate list of an input is not
\* empty and the execution of every candidate fails, the input is reported as
\* failed: an error is returned to the caller
C4_AllFailedIsError ==
    (/\ FallbackDone
     /\ last[1].candidates # <<>>
     /\ Len(last[1].log) = Len(last[1].candidates)
     /\ \A i \in DOMAIN last[1].log : last[1].log[i].exec = "fail")
    => last[1].result = "err"

\* some rule of the list matches the input
SomeMatch(rules, input) == \E i \in DOMAIN rules : is_match(rules[i].pattern, input)

\* C5: match gives the regex rules priority over the glob rules: when a regex
\* rule matches the result is a regex rule that matches, a glob rule is the
\* result only when no regex rule matches, and there is no result exactly when
\* no rule of either kind matches
C5_RegexBeforeGlob ==
    Built => \A input \in Inputs :
        LET m == match(RS, input)
            re == SomeMatch(RS.regex_rules, input)
            gl == SomeMatch(RS.glob_rules, input)
        IN  /\ re => (m # None /\ m[1].kind = "Regex")
            /\ (~re /\ gl) => (m # None /\ m[1].kind = "Glob")
            /\ (m = None) <=> (~re /\ ~gl)
            /\ m # None => is_match(rule_at(RS, m[1]).pattern, input)

\* C5 witness: a regex rule and a glob rule both match the dispatched input
\* and the regex rule was selected
C5_Witness ==
    /\ Built /\ ~args[1].fallback /\ last # None
    /\ SomeMatch(RS.regex_rules, last[1].input)
    /\ SomeMatch(RS.glob_rules, last[1].input)
    /\ Len(last[1].candidates) = 1 /\ last[1].candidates[1].kind = "Regex"

\* the rules of one kind of the selected profile, in the order the loader
\* appended them
Declared(kind) ==
    IF kind = "Regex" THEN profiles[args[1].profile].regex_rules
    ELSE profiles[args[1].profile].glob_rules

\* C6: last-declared-wins: the rule match selects is, among the rules of its
\* kind that match the input, the one appended last during the load
C6_LastDeclaredWins ==
    Built => \A input \in Inputs :
        LET m == match(RS, input) IN
        m # None =>
            LET rule == rule_at(RS, m[1])
                decl == Declared(m[1].kind)
            IN  /\ rule.order \in DOMAIN decl
                /\ decl[rule.order].pattern = rule.pattern
                /\ decl[rule.order].action = rule.action
                /\ is_match(rule.pattern, input)
                /\ \A k \in DOMAIN decl :
                     is_match(decl[k].pattern, input) => k <= rule.order

\* C6 witness: two regex rules declared one after the other both match the
\* dispatched input and the dispatch took the second
C6_Witness ==
    /\ Built /\ ~args[1].fallback /\ last # None
    /\ Len(Declared("Regex")) >= 2
    /\ is_match(Declared("Regex")[1].pattern, last[1].input)
    /\ is_match(Declared("Regex")[2].pattern, last[1].input)
    /\ Len(last[1].candidates) = 1
    /\ last[1].candidates[1].kind = "Regex"
    /\ rule_at(RS, last[1].candidates[1]).order = 2

\* the references to the rules of the rule set that match the input
Matching(rs, input) == {r \in Refs(rs) : is_match(rule_at(rs, r).pattern, input)}

\* C7: matches returns exactly the rules that match the input, each once: the
\* regex rules from the latest declared to the earliest, then the glob rules
\* from the latest declared to the earliest; it is empty exactly when match
\* returns nothing, and its first element is the rule match returns
C7_MatchesAll ==
    Built => \A input \in Inputs :
        LET ms == matches(RS, input) IN
        /\ Range(ms) = Matching(RS, input)
        /\ Len(ms) = Cardinality(Matching(RS, input))
        /\ \A i, j \in DOMAIN ms : i < j =>
             /\ ms[i].kind = "Regex" \/ ms[j].kind = "Glob"
             /\ ms[i].kind = ms[j].kind =>
                  rule_at(RS, ms[i]).order > rule_at(RS, ms[j]).order
        /\ (ms = <<>>) <=> (match(RS, input) = None)
        /\ ms # <<>> => match(RS, input) = Some(ms[1])

\* C7 witness: a fallback dispatch walked a regex rule and then a glob rule,
\* the two rules that match its input
C7_Witness ==
    /\ FallbackDone
    /\ last[1].candidates = matches(RS, last[1].input)
    /\ Len(last[1].candidates) = 2 /\ Len(last[1].log) = 2
    /\ last[1].candidates[1].kind = "Regex" /\ last[1].candidates[2].kind = "Glob"

\* the rules of a builder or of a rule set, both kinds together
AllRules(b) == Range(b.regex_rules) \cup Range(b.glob_rules)

\* C8: after a successful build every rule whose action is an alias has its
\* resolved command equal to the command of the last declaration of that
\* identifier in the rule's own profile, and a rule with a literal command
\* resolves to that literal
C8_AliasResolution ==
    (status = "running" /\ rrr # None) =>
        \A p \in DOMAIN rrr[1] : \A rule \in AllRules(rrr[1][p]) :
            IF rule.action.kind = "Alias"
            THEN /\ last_alias[p][rule.action.value] # None
                 /\ rule.resolved = last_alias[p][rule.action.value]
            ELSE rule.resolved = Some(rule.action.value)

\* C8 witness: the build succeeded, the two profiles declare the same
\* identifier with different commands, the last declaration of "work" follows
\* an earlier one, and a rule of "work" resolved to the command of "work"
C8_Witness ==
    /\ status = "running" /\ rrr # None
    /\ last_alias["default"]["ed"] = Some(CmdPlain)
    /\ last_alias["work"]["ed"] = Some(CmdInput)
    /\ "work" \in DOMAIN rrr[1]
    /\ \E rule \in AllRules(rrr[1]["work"]) :
         rule.action.kind = "Alias" /\ rule.resolved = Some(CmdInput)

\* a recorded rule references an alias its own profile never declared
UnresolvedAlias ==
    \E p \in DOMAIN profiles : \E rule \in AllRules(profiles[p]) :
        rule.action.kind = "Alias" /\ last_alias[p][rule.action.value] = None

\* C9: when a recorded rule of any profile references an alias that is not
\* defined in its own profile, the build fails and produces no rule set for
\* any profile
C9_UnresolvedAliasFailsBuild ==
    (status \notin {"loading", "load_error"} /\ UnresolvedAlias) =>
        (status = "build_error" /\ rrr = None)

\* C9 witness: the build failed on a rule of "default" whose alias is declared
\* in "work" only
C9_Witness ==
    /\ status = "build_error" /\ rrr = None
    /\ last_alias["work"]["ed"] # None
    /\ last_alias["default"]["ed"] = None
    /\ \E rule \in AllRules(profiles["default"]) : rule.action.kind = "Alias"

\* every canonical file was read and parsed once if it is visited, never if not
ReadAtMostOnce ==
    \A f \in Files : read_count[f] = IF f \in loaded_config_files THEN 1 ELSE 0

\* a config call on a path whose canonical file is visited, made from main or
\* from an include, changes neither the builders, nor the visited set, nor the
\* current profile
RevisitIsNoOp ==
    \A path \in Paths \ Dirs :
        (/\ canonicalize(path) \in loaded_config_files
         /\ ConfigTop(path, None) \/ ParseMetaInclude(path, None)
            \/ IncludeDirEntry(path, None))
        => UNCHANGED <<profiles, loaded_config_files, current_profile, read_count>>

\* C10: idempotent loading: a configuration file is read and its declarations
\* registered exactly once, however often its canonical path is reached, and
\* loading a visited canonical path leaves the profile builders, the visited
\* set and the current profile unchanged
C10_IdempotentLoading == []ReadAtMostOnce /\ [][RevisitIsNoOp]_vars

\* C10 witness: file A included the directory, whose entries are B and a second
\* name of A: B was read, and the load of A, already visited, was skipped
C10_Witness ==
    /\ Len(stack) = 2
    /\ stack[1].kind = "file" /\ stack[1].file = "A"
    /\ stack[2].kind = "dir" /\ stack[2].todo = {}
    /\ read_count = [f \in Files |-> 1]

\* every file being parsed was marked visited before its first line, and no
\* file is being parsed twice
VisitedBeforeParsed ==
    /\ \A i \in DOMAIN stack :
          stack[i].kind = "file" => stack[i].file \in loaded_config_files
    /\ \A i, j \in DOMAIN stack :
          (stack[i].kind = "file" /\ stack[j].kind = "file" /\ i # j)
              => stack[i].file # stack[j].file

\* C11: loading terminates on finite files: every top-level config() call
\* returns, also when a file includes itself or a cycle of includes leads
\* back to it, because each file is marked visited before its lines are parsed
C11_LoadingTerminates ==
    /\ (stack # <<>>) ~> (stack = <<>>)
    /\ []VisitedBeforeParsed

\* C11 witness: file B, included from file A, has parsed its line that
\* includes A back (by either name); A was not read again
C11_Witness ==
    /\ Len(stack) = 2
    /\ stack[1].kind = "file" /\ stack[1].file = "A"
    /\ stack[2].kind = "file" /\ stack[2].file = "B"
    /\ stack[2].pos >= 1
    /\ stack[2].lines[1][stack[2].pos] \in {<<"include", "A">>, <<"include", "lnA">>}
    /\ read_count["A"] = 1

\* the loader is about to parse a stored line of the file on top
LineAhead == stack # <<>> /\ Top.kind = "file" /\ Top.lines # None
             /\ Top.pos < Len(Top.lines[1])

\* the line the loader is about to parse
AheadLine == Top.lines[1][Top.pos + 1]

\* the current profile changes only when a profile line is parsed, to the
\* profile the line names; every other step, a return from config or from a
\* directory include among them, keeps it
CursorFollowsProfileLines ==
    IF LineAhead /\ stack' # stack /\ AheadLine[1] = "profile"
    THEN current_profile' = AheadLine[2]
    ELSE current_profile' = current_profile

\* a match line is recorded in the builder of the current profile, whatever
\* file the line is in and whatever file selected the profile
RecordedUnderCursor ==
    (LineAhead /\ stack' # stack /\ AheadLine[1] = "match" /\ is_profile_loadable)
        => profiles' = [profiles EXCEPT ![current_profile] =
                          RuleSetBuilder_rule(@, AheadLine[2], AheadLine[3])]

\* C12: the current profile is one cursor over the whole recursive load: it
\* is the profile of the last profile line parsed, in whatever file; returning
\* from an include does not restore it, and the lines after the include point
\* are recorded under it
C12_ProfileCursor == [][CursorFollowsProfileLines /\ RecordedUnderCursor]_vars

\* C12 witness: file A, which has no profile line, included B and then
\* recorded its match line in "work", the profile that B selected
C12_Witness ==
    /\ Len(stack) = 1 /\ stack[1].kind = "file" /\ stack[1].file = "A"
    /\ stack[1].lines = Some(<<(<<"include", "B">>), (<<"match", FilePattern, FileAction>>)>>)
    /\ stack[1].pos = 2
    /\ read_count["B"] = 1
    /\ current_profile = "work"
    /\ "work" \in DOMAIN profiles /\ Len(profiles["work"].glob_rules) = 1
    /\ Len(profiles["default"].glob_rules) = 0

\* the current profile is in the allow-list, or there is no allow-list
CursorAllowed == only_profiles = None \/ current_profile \in only_profiles[1]

\* the profiles outside the allow-list hold no alias and no rule, in the
\* builders and in the built result
FilteredProfilesEmpty ==
    only_profiles # None =>
        /\ \A p \in DOMAIN profiles \ only_profiles[1] : profiles[p] = RuleSetBuilder_new
        /\ rrr # None =>
              \A p \in DOMAIN rrr[1] \ only_profiles[1] :
                  rrr[1][p].regex_rules = <<>> /\ rrr[1][p].glob_rules = <<>>

\* a profile line moves the current profile whether its target is allowed or
\* not; an alias or a match line is recorded when the current profile is
\* allowed and leaves the builders alone when it is not
FilterOnLines ==
    (LineAhead /\ stack' # stack) =>
        CASE AheadLine[1] = "profile" ->
               current_profile' = AheadLine[2] /\ AheadLine[2] \in DOMAIN profiles'
          [] AheadLine[1] = "alias" ->
               IF CursorAllowed
               THEN profiles'[current_profile].alias[AheadLine[2]] = Some(AheadLine[3])
               ELSE profiles' = profiles
          [] AheadLine[1] = "match" ->
               IF CursorAllowed
               THEN profiles'[current_profile].glob_rules
                      = Append(profiles[current_profile].glob_rules,
                               NewRule(AheadLine[2], AheadLine[3],
                                       Len(profiles[current_profile].glob_rules) + 1))
               ELSE profiles' = profiles
          [] OTHER -> TRUE

\* C13: profile filter: under an allow-list every profile outside it holds
\* zero rules and zero aliases, before and after the build, while a profile
\* line naming such a profile still moves the current profile, and the alias
\* and match lines parsed under an allowed profile are all recorded
C13_ProfileFilter == []FilteredProfilesEmpty /\ [][FilterOnLines]_vars

\* C13 witness: with "default" alone allowed, file A switched to "work" and
\* then parsed a match line: the current profile moved to "work", whose
\* builder exists and stayed empty
C13_Witness ==
    /\ only_profiles = Some({"default"})
    /\ Len(stack) = 1 /\ stack[1].kind = "file"
    /\ stack[1].lines = Some(<<(<<"profile", "work">>), (<<"match", FilePattern, FileAction>>)>>)
    /\ stack[1].pos = 2
    /\ current_profile = "work"
    /\ "work" \in DOMAIN profiles /\ profiles["work"] = RuleSetBuilder_new

\* the rules the dispatch of the last input prepared
LastPrepared ==
    IF ~Built \/ last = None THEN {}
    ELSE {last[1].log[k].rule : k \in {j \in DOMAIN last[1].log : last[1].log[j].prepared}}

\* the captures of a rule on the last input
LastCaptures(rule) == Rule_captures(rule, last[1].input).value

\* the placeholders of the captures replaced in one pass from the left: at each
\* position the longest %i with i in 1..n is replaced by the quoted capture
\* i, and the inserted text is not read again
RECURSIVE replace_placeholders(_, _)
replace_placeholders(s, captures) ==
    IF s = <<>> THEN <<>>
    ELSE LET here == {i \in DOMAIN captures : starts_with(s, <<"%">> \o decimal(i))} IN
         IF here = {} THEN <<Head(s)>> \o replace_placeholders(Tail(s), captures)
         ELSE quote(captures[Max(here)]).value
              \o replace_placeholders(SubSeq(s, Len(decimal(Max(here))) + 2, Len(s)),
                                      captures)

\* C14: capture substitution: the command prepared for an input is the
\* resolved template in which every placeholder %i, i in 1..n (i >= 10
\* included), is replaced by the quoted capture i and no inserted capture is
\* altered by the substitution of another %i, followed by the substitution of
\* the input; for a glob rule no %i is replaced
C14_CaptureSubstitution ==
    \A ref \in LastPrepared :
        LET rule == rule_at(RS, ref) IN
        rule.execution =
            Some(substitute_file(replace_placeholders(rule.resolved[1], LastCaptures(rule)),
                                 last[1].input).value)

\* the template of the rule with its captures substituted
CaptureSubstituted(rule) == substitute_captures(rule.resolved[1], LastCaptures(rule)).value

\* C15: input substitution: when the resolved template contains %s, the
\* prepared command is the capture-substituted template with each %s replaced
\* by the quoted input and nothing appended; when it contains no %s, the
\* prepared command is the capture-substituted template, one space and the
\* quoted input, whatever the input and the captures contain
C15_InputSubstitution ==
    \A ref \in LastPrepared :
        LET rule == rule_at(RS, ref)
            quoted == quote(last[1].input).value
        IN  rule.execution =
                IF contains(rule.resolved[1], <<"%", "s">>)
                THEN Some(replace(CaptureSubstituted(rule), <<"%", "s">>, quoted))
                ELSE Some(CaptureSubstituted(rule) \o <<" ">> \o quoted)

\* the dispatch of the last input ended on a preparation error: process_rule
\* returned the error of Rule::prepare
PreparationFailed ==
    /\ last # None /\ last[1].result = "err" /\ last[1].log # <<>>
    /\ ~last[1].log[Len(last[1].log)].prepared

\* C16: a preparation error is fatal for its input only: after it the run is
\* still in the loop over the inputs, where the inputs that follow are
\* matched and dispatched, under either policy
C16_PreparationErrorOnlyThatInput == PreparationFailed => status = "running"

\* the last input matched no rule of the selected profile
LastUnmatched == Built /\ last # None /\ Matching(RS, last[1].input) = {}

\* after the dispatch of an input no rule matches: no candidate, nothing
\* prepared or executed, no error, and the run is in the loop over the inputs
\* or has ended normally
NoMatchIsNoError ==
    LastUnmatched =>
        /\ last[1].candidates = <<>> /\ last[1].log = <<>>
        /\ last[1].result = "ok"
        /\ status \in {"running", "done"}

\* the dispatch of an input no rule matches leaves every rule and every count
\* of prepare calls as they were, and the loop over the inputs goes on
NoMatchChangesNothing ==
    (status = "running" /\ Built /\ last' # last /\ Matching(RS, last'[1].input) = {})
        => (rrr' = rrr /\ prepare_calls' = prepare_calls /\ status' = "running")

QuietDone == Built /\ last # None /\ (args[1].query \/ args[1].dry_run)

\* C18: in query mode or dry-run mode no command is executed for any input,
\* and under the fallback policy the walk goes through every rule that
\* matches returns, in its order: each one is prepared and, in query mode,
\* its prepared command is printed
C18_QuietModesWalkAll ==
    QuietDone =>
        LET log == last[1].log
            ms == matches(RS, last[1].input)
        IN  /\ \A k \in DOMAIN log : log[k].exec = "none"
            /\ args[1].fallback =>
                  /\ Len(log) = Len(ms)
                  /\ \A k \in DOMAIN log :
                        /\ log[k].rule = ms[k]
                        /\ log[k].prepared
                        /\ args[1].query => log[k].printed

\* the executions of the dispatch of the last input
LastExecuted ==
    IF ~Built \/ last = None THEN {}
    ELSE {last[1].log[k] : k \in {j \in DOMAIN last[1].log : last[1].log[j].mode # "none"}}

\* C19: the execution mode is a function of the flags alone: wait-and-check
\* whenever the fallback policy is on, whatever the fork flag; otherwise fork
\* with the fork flag and exec without it.  The process is therefore never
\* replaced while a fallback walk is in progress
C19_ExecutionModeFromFlags ==
    /\ \A ev \in LastExecuted :
          /\ args[1].fallback => ev.mode = "WaitSuccessSignalOk"
          /\ (~args[1].fallback /\ args[1].fork) => ev.mode = "Fork"
          /\ (~args[1].fallback /\ ~args[1].fork) => ev.mode = "Exec"
          /\ ev.exec = "replaced" => ev.mode = "Exec"
    /\ (args # None /\ args[1].fallback) => status # "replaced"

\* C19 witness: with the fallback and the fork flags both set, a fallback walk
\* executed two candidates in wait-and-check mode: the first failed and the
\* walk went on to the second
C19_Witness ==
    /\ FallbackDone /\ args[1].fork
    /\ Len(last[1].log) = 2
    /\ last[1].log[1].mode = "WaitSuccessSignalOk" /\ last[1].log[1].exec = "fail"
    /\ last[1].log[2].mode = "WaitSuccessSignalOk" /\ last[1].log[2].exec = "ok"
====
